---- MODULE Spec2Model ----
(***************************************************************************)
(* Signal-based one-dimensional cellular automata (vpoupet/signals).       *)
(*                                                                         *)
(* The repository holds two revisions of the Automaton class:              *)
(*   src/unnamed/part_000               (regular-expression item grammar)  *)
(*   src/src/lib/automata/Automaton.ts  (single-character token grammar)   *)
(* Their constructor and makeDiagram are the same text; the condition and  *)
(* output parsers differ and are modelled separately.                      *)
(*                                                                         *)
(* Strings are sequences of one-character strings.  JavaScript arrays are  *)
(* either sequences or functions on 0..n-1 (where the code indexes them).  *)
(***************************************************************************)
EXTENDS Integers, Sequences, FiniteSets, TLC

VARIABLES
    rules,                \* Automaton.rules
    minNeighbor,          \* Automaton.minNeighbor
    maxNeighbor,          \* Automaton.maxNeighbor
    heap,                 \* the Configuration objects: reference -> cells
    initialConfiguration, \* makeDiagram's first argument (a reference)
    initialCells,         \* what that Configuration held when it was passed
    nbSteps,              \* makeDiagram's second argument
    nbCells,              \* makeDiagram: const nbCells
    diagram,              \* makeDiagram: const diagram (array of references)
    t,                    \* makeDiagram: loop variable t
    c,                    \* makeDiagram: loop variable c
    r,                    \* makeDiagram: index of the rule in for (rule of rules)
    neighborhood,         \* makeDiagram: const neighborhood
    pc,                   \* position in the running code
    error,                \* the exception that ended the call, if any
    evals,                \* history: every evaluation of a rule's condition
    writes,               \* history: every output of a fired rule
    results,              \* history: the outcome of each finished call
    maxFutureDepth,       \* Automaton.maxFutureDepth
    revision,             \* which revision of the Automaton class runs
    rulesString,          \* constructor: the parameter rulesString
    lines,                \* constructor: rulesString.split('\n')
    lineNo,               \* constructor: the number of the line of the loop
    indent,               \* constructor: const indent
    conditionString,      \* constructor: let conditionString (or undefined)
    outputsString,        \* constructor: let outputsString
    conditionsStack,      \* constructor: const conditionsStack, top first
    condition,            \* constructor: let condition
    ruleLines,            \* history: the number of the line of each rule
    argument,             \* the argument of a parser called on its own
    result                \* what that call gave

vars == <<rules, minNeighbor, maxNeighbor, heap, initialConfiguration,
          initialCells, nbSteps, nbCells, diagram, t, c, r, neighborhood,
          pc, error, evals, writes, results, maxFutureDepth, revision,
          rulesString, lines, lineNo, indent, conditionString, outputsString,
          conditionsStack, condition, ruleLines, argument, result>>

(***************************************************************************)
(* Bounds of the model.                                                    *)
(***************************************************************************)
MaxRules == 2
MaxCells == 2
MaxSteps == 2
MaxCalls == 2

\* a signal is Symbol.for(name): two signals are equal iff their names are
SigA == <<"A">>
SigB == <<"B">>

(***************************************************************************)
(* Clause.ts                                                               *)
(***************************************************************************)
Clause == [kind |-> "Clause"]
Negation(subclause) == [kind |-> "Negation", subclause |-> subclause]
Literal(signal, position, timeStep) ==
    [kind |-> "Literal", signal |-> signal, position |-> position,
     timeStep |-> timeStep]

\* new Conjunction(subclauses): the subclauses of a Conjunction in the list
\* take its place
RECURSIVE ConjunctionSubclauses(_)
ConjunctionSubclauses(subclauses) ==
    IF subclauses = <<>> THEN <<>>
    ELSE LET subclause == Head(subclauses)
         IN  (IF subclause.kind = "Conjunction"
              THEN subclause.subclauses
              ELSE <<subclause>>) \o ConjunctionSubclauses(Tail(subclauses))

Conjunction(subclauses) ==
    [kind |-> "Conjunction", subclauses |-> ConjunctionSubclauses(subclauses)]

\* new Disjunction(subclauses): the loop of the constructor.  list is the
\* array passed in, own the array made by the constructor; once a subclause
\* that is not a Disjunction is met, this.subclauses IS the array passed in
\* (aliased), later pushes go to it and for...of also visits what they add.
RECURSIVE DisjunctionLoop(_, _, _, _)
DisjunctionLoop(list, own, aliased, i) ==
    IF i > Len(list)
    THEN [subclauses |-> IF aliased THEN list ELSE own, list |-> list]
    ELSE IF list[i].kind = "Disjunction"
         THEN IF aliased
              THEN DisjunctionLoop(list \o list[i].subclauses, own, TRUE, i + 1)
              ELSE DisjunctionLoop(list, own \o list[i].subclauses, FALSE, i + 1)
         ELSE DisjunctionLoop(list, own, TRUE, i + 1)

Disjunction(subclauses) ==
    [kind |-> "Disjunction",
     subclauses |-> DisjunctionLoop(subclauses, <<>>, FALSE, 1).subclauses]

\* eval returns "true", "false", or "TypeError" when signals[position] is
\* undefined and .has is called on it
RECURSIVE eval(_, _)
RECURSIVE every(_, _)
RECURSIVE some(_, _)

\* (mutant) a position that is not a key of the neighborhood reads as a cell
\* without signals
LiteralEvalAbsent(clause, signals) ==
    IF clause.position \in DOMAIN signals /\ clause.signal \in signals[clause.position]
    THEN "true" ELSE "false"

LiteralEval(clause, signals) ==
    IF clause.position \in DOMAIN signals
    THEN IF clause.signal \in signals[clause.position] THEN "true" ELSE "false"
    ELSE "TypeError"

NegationEval(clause, signals) ==
    LET v == eval(clause.subclause, signals)
    IN  IF v = "TypeError" THEN v
        ELSE IF v = "true" THEN "false" ELSE "true"

\* Array.prototype.every: stops at the first subclause that is not true
every(subclauses, signals) ==
    IF subclauses = <<>> THEN "true"
    ELSE LET v == eval(Head(subclauses), signals)
         IN  IF v = "true" THEN every(Tail(subclauses), signals) ELSE v

\* (mutant) only the first subclause is looked at
someFirst(subclauses, signals) ==
    IF subclauses = <<>> THEN "false" ELSE eval(Head(subclauses), signals)

\* Array.prototype.some: stops at the first subclause that is true
some(subclauses, signals) ==
    IF subclauses = <<>> THEN "false"
    ELSE LET v == eval(Head(subclauses), signals)
         IN  IF v = "false" THEN some(Tail(subclauses), signals) ELSE v

eval(clause, signals) ==
    CASE clause.kind = "Clause"      -> "true"
      [] clause.kind = "Negation"    -> NegationEval(clause, signals)
      [] clause.kind = "Conjunction" -> every(clause.subclauses, signals)
      [] clause.kind = "Disjunction" -> some(clause.subclauses, signals)
      [] clause.kind = "Literal"     -> LiteralEval(clause, signals)

(***************************************************************************)
(* Configuration.ts                                                        *)
(***************************************************************************)
\* new Configuration(nbCells): nbCells empty sets, indexed from 0
Configuration(n) == [i \in 0 .. n - 1 |-> {}]

getSize(cells) == Cardinality(DOMAIN cells)

\* A neighborhood entry is a reference to a cell's Set object (the Set of
\* cell index of the Configuration config) or a newly made empty Set.
CellRef(config, index) == [kind |-> "cell", config |-> config, index |-> index]
NewSet == [kind |-> "new"]

\* (mutant) a closed boundary: an offset outside the configuration reads the
\* cell at the border
getNeighborhoodClosed(config, size, cell, minN, maxN) ==
    [i \in minN .. maxN |->
        IF cell + i < 0 THEN CellRef(config, 0)
        ELSE IF cell + i >= size THEN CellRef(config, size - 1)
        ELSE CellRef(config, cell + i)]

getNeighborhood(config, size, cell, minN, maxN) ==
    [i \in minN .. maxN |->
        IF cell + i < 0 THEN NewSet
        ELSE IF cell + i >= size THEN NewSet
        ELSE CellRef(config, cell + i)]

\* (mutant) the neighborhood holds copies of the cells, made when the cell
\* began to be processed
DerefCopied(h, nbh) ==
    [i \in DOMAIN nbh |->
        IF nbh[i].kind = "cell"
        THEN h[nbh[i].config][nbh[i].index]
                 \ {writes[k].signal : k \in
                        {k \in 1 .. Len(writes) :
                            /\ writes[k].t = t
                            /\ writes[k].c = c
                            /\ writes[k].effect = "added"
                            /\ diagram[writes[k].time] = nbh[i].config
                            /\ writes[k].cell = nbh[i].index}}
        ELSE {}]

\* the contents, now, of the Set objects a neighborhood refers to
Deref(h, nbh) ==
    [i \in DOMAIN nbh |->
        IF nbh[i].kind = "cell" THEN h[nbh[i].config][nbh[i].index] ELSE {}]

(***************************************************************************)
(* Automaton: RuleOutput, Rule                                             *)
(***************************************************************************)
RuleOutput(signal, neighbor, futureStep) ==
    [neighbor |-> neighbor, signal |-> signal, futureStep |-> futureStep]

Rule(clause, outputs) == [condition |-> clause, outputs |-> outputs]

(***************************************************************************)
(* Strings and the regular expressions of the two parsers                  *)
(***************************************************************************)
Digits == {"0", "1", "2", "3", "4", "5", "6", "7", "8", "9"}

Letters ==
    {"A", "B", "C", "D", "E", "F", "G", "H", "I", "J", "K", "L", "M", "N",
     "O", "P", "Q", "R", "S", "T", "U", "V", "W", "X", "Y", "Z",
     "a", "b", "c", "d", "e", "f", "g", "h", "i", "j", "k", "l", "m", "n",
     "o", "p", "q", "r", "s", "t", "u", "v", "w", "x", "y", "z"}

\* [A-Za-z0-9_$']
signalNameChars == Letters \cup Digits \cup {"_", "$", "'"}

\* \s, as far as the texts of the model go
Whitespace == {" ", "\t"}

DigitValue(ch) ==
    CASE ch = "0" -> 0 [] ch = "1" -> 1 [] ch = "2" -> 2 [] ch = "3" -> 3
      [] ch = "4" -> 4 [] ch = "5" -> 5 [] ch = "6" -> 6 [] ch = "7" -> 7
      [] ch = "8" -> 8 [] ch = "9" -> 9

\* the first index >= i of str whose character is not in chars
RECURSIVE SkipChars(_, _, _)
SkipChars(str, i, chars) ==
    IF i <= Len(str) /\ str[i] \in chars THEN SkipChars(str, i + 1, chars) ELSE i

\* parseInt of a string made of an optional sign and digits (the only
\* strings the parsers pass to it)
RECURSIVE DigitsValue(_, _)
DigitsValue(str, acc) ==
    IF str = <<>> \/ Head(str) \notin Digits THEN acc
    ELSE DigitsValue(Tail(str), 10 * acc + DigitValue(Head(str)))

parseInt(str) ==
    IF Head(str) = "-" THEN 0 - DigitsValue(Tail(str), 0)
    ELSE IF Head(str) = "+" THEN DigitsValue(Tail(str), 0)
    ELSE DigitsValue(str, 0)

\* String.prototype.includes for a one-character string
includes(str, ch) == \E i \in 1 .. Len(str) : str[i] = ch

\* String.prototype.split for a one-character separator
RECURSIVE split(_, _)
split(str, ch) ==
    IF includes(str, ch)
    THEN LET i == CHOOSE k \in 1 .. Len(str) :
                      str[k] = ch /\ \A j \in 1 .. k - 1 : str[j] # ch
         IN  <<SubSeq(str, 1, i - 1)>> \o split(SubSeq(str, i + 1, Len(str)), ch)
    ELSE <<str>>

\* String.prototype.trim
RECURSIVE trimEnd(_)
trimEnd(str) ==
    IF str # <<>> /\ str[Len(str)] \in Whitespace
    THEN trimEnd(SubSeq(str, 1, Len(str) - 1)) ELSE str

trim(str) ==
    trimEnd(SubSeq(str, SkipChars(str, 1, Whitespace), Len(str)))

\* line.search(/\S|$/): the (0-based) index of the first character that is
\* not whitespace, the length of the line when there is none
searchNonSpace(str) == SkipChars(str, 1, Whitespace) - 1

\* line.replace(/#.*/, '')
removeComment(str) ==
    IF includes(str, "#") THEN Head(split(str, "#")) ELSE str

\* the + quantifier: the index `to` reached from `from`, 0 when nothing was
\* consumed
oneOrMore(from, to) == IF to > from THEN to ELSE 0

\* \d+ at index j
digitsEnd(str, j) == oneOrMore(j, SkipChars(str, j, Digits))

\* the character sep at index k, k = 0 meaning that what precedes did not
\* match
charEnd(str, k, sep) ==
    IF k # 0 /\ k <= Len(str) /\ str[k] = sep THEN k + 1 ELSE 0

\* (?<n>sign?\d+) at index i: the index after it, 0 when it does not match.
\* signs is [+-] in part_000 and - in Automaton.ts
numberEnd(str, i, signs) ==
    digitsEnd(str, IF i <= Len(str) /\ str[i] \in signs THEN i + 1 ELSE i)

\* a number followed by the character sep: (?:(?<n>sign?\d+)sep)
prefixEnd(str, i, signs, sep) == charEnd(str, numberEnd(str, i, signs), sep)

\* signalNameRE, greedy
nameEnd(str, i) == oneOrMore(i, SkipChars(str, i, signalNameChars))

\* the groups of an expression that did not match
NoMatch == [end |-> 0, time |-> <<>>, coord |-> <<>>, sign |-> <<>>,
            signal |-> <<>>]

\* One way of matching  (time/)?(coord.)?(sign)?name  at index i: with or
\* without each optional group.  a, b, d and e are the indexes after the
\* time, the coordinate, the sign and the name, 0 from the first part that
\* does not match on; end is the index after the match, 0 when this way
\* does not match; a group that did not take part is <<>> (undefined).
itemGroups(str, i, a, b, d, e, useTime, useCoord, useSign) ==
    IF e = 0
    THEN NoMatch
    ELSE [end |-> e,
          time |-> IF useTime THEN SubSeq(str, i, a - 2) ELSE <<>>,
          coord |-> IF useCoord THEN SubSeq(str, a, b - 2) ELSE <<>>,
          sign |-> IF useSign THEN <<str[b]>> ELSE <<>>,
          signal |-> SubSeq(str, d, e - 1)]

itemName(str, i, a, b, d, useTime, useCoord, useSign) ==
    itemGroups(str, i, a, b, d, IF d = 0 THEN 0 ELSE nameEnd(str, d),
               useTime, useCoord, useSign)

itemSign(str, i, a, b, useTime, useCoord, useSign) ==
    itemName(str, i, a, b,
             IF b = 0 THEN 0
             ELSE IF useSign
                  THEN IF b <= Len(str) /\ str[b] \in {"+", "-"} THEN b + 1 ELSE 0
                  ELSE b,
             useTime, useCoord, useSign)

itemCoord(str, i, a, signs, useTime, useCoord, useSign) ==
    itemSign(str, i, a,
             IF a = 0 THEN 0
             ELSE IF useCoord THEN prefixEnd(str, a, signs, ".") ELSE a,
             useTime, useCoord, useSign)

itemTry(str, i, signs, useTime, useCoord, useSign) ==
    itemCoord(str, i, IF useTime THEN prefixEnd(str, i, signs, "/") ELSE i,
              signs, useTime, useCoord, useSign)

\* m when it is a match, otherwise the alternative
orElse(m, alternative) == IF m.end # 0 THEN m ELSE alternative

\* the first of the ways, in the order a backtracking matcher tries greedy
\* optional groups (with before without), that matches at index i
RECURSIVE firstMatch(_, _, _, _, _)
firstMatch(str, i, signs, ways, k) ==
    IF k > Len(ways)
    THEN NoMatch
    ELSE orElse(itemTry(str, i, signs, ways[k][1], ways[k][2], ways[k][3]),
                firstMatch(str, i, signs, ways, k + 1))

\* part_000 conditionItemRE = timeStepRE? coordinateRE? signRE? signalNameRE
conditionItemWays ==
    <<<<TRUE, TRUE, TRUE>>, <<TRUE, TRUE, FALSE>>, <<TRUE, FALSE, TRUE>>,
      <<TRUE, FALSE, FALSE>>, <<FALSE, TRUE, TRUE>>, <<FALSE, TRUE, FALSE>>,
      <<FALSE, FALSE, TRUE>>, <<FALSE, FALSE, FALSE>>>>

conditionItemRE(str, i) == firstMatch(str, i, {"+", "-"}, conditionItemWays, 1)

\* part_000 outputItemRE = timeStepRE? coordinateRE? signalNameRE
outputItemWays ==
    <<<<TRUE, TRUE, FALSE>>, <<TRUE, FALSE, FALSE>>, <<FALSE, TRUE, FALSE>>,
      <<FALSE, FALSE, FALSE>>>>

outputItemRE(str, i) == firstMatch(str, i, {"+", "-"}, outputItemWays, 1)

\* Automaton.ts parseOutputs tokenRE = (((number/)?number.)?name), the first
\* number being followed by / and the second by .
outputTokenWays ==
    <<<<TRUE, TRUE, FALSE>>, <<FALSE, TRUE, FALSE>>, <<FALSE, FALSE, FALSE>>>>

outputTokenRE(str, i) == firstMatch(str, i, {"-"}, outputTokenWays, 1)

\* regexp.exec(token) without the g flag: the leftmost match in the string
RECURSIVE execFrom(_, _)
execFrom(str, i) ==
    IF i > Len(str) THEN NoMatch
    ELSE orElse(conditionItemRE(str, i), execFrom(str, i + 1))

\* part_000: conditionString.match(conditionTokensRE), the matches from
\* index i on.  conditionTokensRE = [\[\]()] | conditionItemRE, g flag.
RECURSIVE matchConditionTokens(_, _)
RECURSIVE conditionTokensAfter(_, _, _)

matchConditionTokens(str, i) ==
    IF i > Len(str) THEN <<>>
    ELSE IF str[i] \in {"[", "]", "(", ")"}
    THEN <<<<str[i]>>>> \o matchConditionTokens(str, i + 1)
    ELSE conditionTokensAfter(str, i, conditionItemRE(str, i))

\* m is the match of conditionItemRE at index i: the search goes on after
\* it, or one character further when there is none
conditionTokensAfter(str, i, m) ==
    IF m.end # 0
    THEN <<SubSeq(str, i, m.end - 1)>> \o matchConditionTokens(str, m.end)
    ELSE matchConditionTokens(str, i + 1)

\* Automaton.ts: conditionString.match(tokenRE),
\* tokenRE = ( \( | \) | \[ | \] | \+ | - | signalNameRE ), g flag
RECURSIVE matchTokens(_, _)
matchTokens(str, i) ==
    IF i > Len(str) THEN <<>>
    ELSE IF str[i] \in {"(", ")", "[", "]", "+", "-"}
    THEN <<<<str[i]>>>> \o matchTokens(str, i + 1)
    ELSE LET e == nameEnd(str, i)
         IN  IF e # 0
             THEN <<SubSeq(str, i, e - 1)>> \o matchTokens(str, e)
             ELSE matchTokens(str, i + 1)

\* the matches of a g-flag output expression from index i on, as the
\* records of their groups; re is "outputItemRE" or "outputTokenRE"
RECURSIVE matchOutputs(_, _, _)
RECURSIVE outputsAfter(_, _, _, _)

matchOutputs(re, str, i) ==
    IF i > Len(str) THEN <<>>
    ELSE outputsAfter(re, str, i, IF re = "outputItemRE"
                                  THEN outputItemRE(str, i)
                                  ELSE outputTokenRE(str, i))

\* m is the match of the expression at index i
outputsAfter(re, str, i, m) ==
    IF m.end # 0
    THEN <<m @@ [text |-> SubSeq(str, i, m.end - 1)]>>
             \o matchOutputs(re, str, m.end)
    ELSE matchOutputs(re, str, i + 1)

(***************************************************************************)
(* Automaton.parseCondition / readConditionTokens / parseOutputs           *)
(*                                                                         *)
(* A parser ends with a value (status "ok"), by throwing (status           *)
(* "RuleParsingException" or "TypeError"), or not at all (status "loop").  *)
(***************************************************************************)
\* a variable that holds a string or undefined
Undefined == [defined |-> FALSE, value |-> <<>>]
Defined(str) == [defined |-> TRUE, value |-> str]

Parsed(clause, tokens) == [status |-> "ok", clause |-> clause, tokens |-> tokens]
Thrown(exception) == [status |-> exception, clause |-> Clause, tokens |-> <<>>]

\* part_000 lines 167-196: what a group returns for its subclauses
\* (lines 173-181 for [ ], lines 188-196 for ( ))
\* (mutant) a group is always wrapped in a Disjunction or a Conjunction
groupClauseWrapped(opener, subclauses) ==
    IF opener = "[" THEN Disjunction(subclauses) ELSE Conjunction(subclauses)

groupClause(opener, subclauses) ==
    IF Len(subclauses) = 0
    THEN IF opener = "[" THEN Negation(Clause) ELSE Clause
    ELSE IF Len(subclauses) = 1 THEN subclauses[1]
    ELSE IF opener = "[" THEN Disjunction(subclauses)
                         ELSE Conjunction(subclauses)

\* part_000 lines 198-210: the clause of a condition item
itemClause(item) ==
    LET timeStep == parseInt(IF item.time = <<>> THEN <<"0">> ELSE item.time)
        position == parseInt(IF item.coord = <<>> THEN <<"0">> ELSE item.coord)
    IN  IF item.sign = <<"-">>
        THEN Negation(Literal(item.signal, position, timeStep))
        ELSE Literal(item.signal, position, timeStep)

\* part_000 lines 199-210: item is the result of conditionItemRE.exec(token),
\* with end = 0 for null, whose groups cannot be read
itemRead(item, rest) ==
    IF item.end = 0
    THEN Thrown("TypeError")
    ELSE Parsed(itemClause(item), rest)

\* part_000 readConditionTokens (lines 160-212).  groupTokens is the loop
\*     while (conditionTokens[0] !== closer) subclauses.push(read(tokens))
\* When the tokens run out inside a group, conditionTokens[0] is undefined,
\* the call returns new Clause() (lines 161-165) without removing anything,
\* and the loop goes on for ever: status "loop".
RECURSIVE readConditionTokensRE(_)
RECURSIVE groupTokensRE(_, _, _)

groupTokensRE(closer, tokens, subclauses) ==
    IF tokens = <<>>
    THEN [status |-> "loop", clause |-> Clause, tokens |-> <<>>,
          subclauses |-> subclauses]
    ELSE IF Head(tokens) = <<closer>>
    THEN [status |-> "ok", clause |-> Clause, tokens |-> tokens,
          subclauses |-> subclauses]
    ELSE LET sub == readConditionTokensRE(tokens)
         IN  IF sub.status # "ok"
             THEN sub @@ [subclauses |-> subclauses]
             ELSE groupTokensRE(closer, sub.tokens,
                                Append(subclauses, sub.clause))

readConditionTokensRE(conditionTokens) ==
    IF conditionTokens = <<>>
    THEN Parsed(Clause, <<>>)
    ELSE LET token == Head(conditionTokens)
             rest == Tail(conditionTokens)
         IN  IF token = <<"[">> \/ token = <<"(">>
             THEN LET closer == IF token = <<"[">> THEN "]" ELSE ")"
                      group == groupTokensRE(closer, rest, <<>>)
                  IN  IF group.status # "ok"
                      THEN Thrown(group.status)
                      ELSE Parsed(groupClause(token[1], group.subclauses),
                                  Tail(group.tokens))
             ELSE itemRead(execFrom(token, 1), rest)

\* Automaton.ts lines 162-166 and 177-181
groupClauseTS(opener, subclauses) ==
    IF Len(subclauses) = 1 THEN subclauses[1]
    ELSE IF opener = "[" THEN Disjunction(subclauses)
                         ELSE Conjunction(subclauses)

\* Automaton.ts lines 180-185: case "-"
negated(clause) ==
    IF clause.kind = "Negation" THEN clause.subclause ELSE Negation(clause)

\* Automaton.ts readConditionTokens (lines 147-195)
RECURSIVE readConditionTokensTS(_)
RECURSIVE groupTokensTS(_, _, _)

groupTokensTS(closer, tokens, subclauses) ==
    IF tokens # <<>> /\ Head(tokens) = <<closer>>
    THEN [status |-> "ok", clause |-> Clause, tokens |-> tokens,
          subclauses |-> subclauses]
    ELSE IF Len(tokens) = 0
    THEN [status |-> "RuleParsingException", clause |-> Clause,
          tokens |-> <<>>, subclauses |-> subclauses]
    ELSE LET sub == readConditionTokensTS(tokens)
         IN  IF sub.status # "ok"
             THEN sub @@ [subclauses |-> subclauses]
             ELSE groupTokensTS(closer, sub.tokens,
                                Append(subclauses, sub.clause))

readConditionTokensTS(conditionTokens) ==
    IF conditionTokens = <<>>
    THEN Parsed(Clause, <<>>)
    ELSE LET token == Head(conditionTokens)
             rest == Tail(conditionTokens)
         IN  IF token = <<"(">> \/ token = <<"[">>
             THEN LET closer == IF token = <<"[">> THEN "]" ELSE ")"
                      group == groupTokensTS(closer, rest, <<>>)
                  IN  IF group.status # "ok"
                      THEN Thrown(group.status)
                      ELSE Parsed(groupClauseTS(token[1], group.subclauses),
                                  Tail(group.tokens))
             ELSE IF token = <<"-">>
             THEN LET sub == readConditionTokensTS(rest)
                  IN  IF sub.status # "ok" THEN sub
                      ELSE Parsed(negated(sub.clause), sub.tokens)
             ELSE IF token = <<"+">>
             THEN readConditionTokensTS(rest)
             ELSE Parsed(Literal(token, 0, 0), rest)

\* the end of parseCondition in both revisions: read is the clause read from
\* the tokens, which must leave no token behind
wholeCondition(read) ==
    IF read.status # "ok" THEN read
    ELSE IF Len(read.tokens) > 0 THEN Thrown("RuleParsingException")
    ELSE read

\* parseCondition after the match: tokens is <<>> when match gave null, on
\* which part_000 calls shift (a TypeError) and Automaton.ts throws
conditionOfTokens(tokens, rev) ==
    IF tokens = <<>>
    THEN Thrown(IF rev = "part_000" THEN "TypeError" ELSE "RuleParsingException")
    ELSE wholeCondition(IF rev = "part_000"
                        THEN readConditionTokensRE(tokens)
                        ELSE readConditionTokensTS(tokens))

\* part_000 parseCondition (lines 214-221); match gives null when nothing
\* matches, and readConditionTokens then calls shift on null
\* (see conditionOfTokens)
parseConditionRE(str) ==
    conditionOfTokens(matchConditionTokens(str, 1), "part_000")

\* Automaton.ts parseCondition (lines 197-209)
parseConditionTS(str) ==
    conditionOfTokens(matchTokens(str, 1), "Automaton.ts")

\* the two revisions of the class
Revisions == {"part_000", "Automaton.ts"}

parseCondition(rev, str) ==
    IF rev = "part_000" THEN parseConditionRE(str)
                             ELSE parseConditionTS(str)

\* part_000 parseOutputs (lines 223-239): the exec loop over outputTokensRE;
\* the groups of a match are never undefined, nothing is thrown
RECURSIVE outputsOfItems(_)
outputsOfItems(items) ==
    IF items = <<>> THEN <<>>
    ELSE LET m == Head(items)
             timeStep == parseInt(IF m.time = <<>> THEN <<"1">> ELSE m.time)
             position == parseInt(IF m.coord = <<>> THEN <<"0">> ELSE m.coord)
         IN  <<RuleOutput(m.signal, position, timeStep)>>
                 \o outputsOfItems(Tail(items))

parseOutputsRE(str, depth) ==
    [status |-> "ok",
     outputs |-> outputsOfItems(matchOutputs("outputItemRE", str, 1)),
     maxFutureDepth |-> depth]

\* Automaton.ts parseOutputs (lines 211-237): the loop over the tokens, depth
\* being this.maxFutureDepth
Max(a, b) == IF a >= b THEN a ELSE b

RECURSIVE outputsOfTokens(_, _)
outputsOfTokens(tokens, depth) ==
    IF tokens = <<>> THEN [outputs |-> <<>>, maxFutureDepth |-> depth]
    ELSE LET token == Head(tokens)
             outputSplit == split(token, ".")
             slashed == includes(outputSplit[1], "/")
             neighborString == IF slashed THEN split(outputSplit[1], "/")[1]
                                          ELSE outputSplit[1]
             futureStep == IF slashed
                           THEN parseInt(split(outputSplit[1], "/")[2])
                           ELSE 1
             neighbor == IF neighborString = <<>> THEN 0
                                                  ELSE parseInt(neighborString)
             output == IF includes(token, ".")
                       THEN RuleOutput(outputSplit[2], neighbor, futureStep)
                       ELSE RuleOutput(token, 0, 1)
             newDepth == IF includes(token, ".") /\ slashed
                         THEN Max(depth, futureStep) ELSE depth
             more == outputsOfTokens(Tail(tokens), newDepth)
         IN  [outputs |-> <<output>> \o more.outputs,
              maxFutureDepth |-> more.maxFutureDepth]

RECURSIVE texts(_)
texts(matches) ==
    IF matches = <<>> THEN <<>>
    ELSE <<Head(matches).text>> \o texts(Tail(matches))

parseOutputsTS(str, depth) ==
    LET tokens == texts(matchOutputs("outputTokenRE", str, 1))
    IN  IF tokens = <<>>
        THEN [status |-> "RuleParsingException", outputs |-> <<>>,
              maxFutureDepth |-> depth]
        ELSE outputsOfTokens(tokens, depth) @@ [status |-> "ok"]

parseOutputs(rev, str, depth) ==
    IF rev = "part_000" THEN parseOutputsRE(str, depth)
                             ELSE parseOutputsTS(str, depth)

(***************************************************************************)
(* Automaton.makeDiagram                                                   *)
(***************************************************************************)
\* diagram.length, diagram being a function on 0 .. length - 1
Length(array) == Cardinality(DOMAIN array)

\* the signals of cell cell of the configuration at time time
Cells(time, cell) == heap[diagram[time]][cell]

\* (mutant) the offset taken on the wrong side
targetCellMirrored(cell, output) == cell - output.neighbor

\* line 271: const targetCell = c + output.neighbor
targetCell(cell, output) == cell + output.neighbor

\* (mutant) every output is written to the next time step
targetTimeNext(time, output) == time + 1

\* lines 272-273: the index t + output.futureStep
targetTime(time, output) == time + output.futureStep

\* (mutant) one Configuration too few is pushed
diagramArrayShort(initial, first, n) ==
    [i \in 0 .. n - 1 |-> IF i = 0 THEN initial ELSE first + i - 1]

\* (mutant) the Configuration passed in is pushed again at every step
diagramArrayAliased(initial, first, n) == [i \in 0 .. n |-> initial]

\* lines 260-263: [initialConfiguration] and nbSteps pushes of a new
\* Configuration, the new objects having the references first, first + 1, ...
diagramArray(initial, first, n) ==
    [i \in 0 .. n |-> IF i = 0 THEN initial ELSE first + i - 1]

\* (mutant) every other cell is skipped
NextCellSkipping(cell) == cell + 2

\* c++ of line 266
NextCell(cell) == cell + 1

\* (mutant) the Set holds the last signal added only
addReplacing(set, value) == {value}

\* line 273: Set.add
add(set, value) == set \cup {value}

\* rule.outputs.forEach(output => ...) from output number k on, for the rule
\* at index rule fired at cell cell and time time.  h is the heap and log the
\* history of writes so far.  diagram[time + futureStep] is undefined for a
\* negative index, and reading .cells of it raises a TypeError that ends the
\* call; the outputs before it have been written.
RECURSIVE forEachOutput(_, _, _, _, _, _, _, _, _)
forEachOutput(outputs, k, dg, size, time, cell, rule, h, log) ==
    IF k > Len(outputs)
    THEN [heap |-> h, writes |-> log, error |-> "none"]
    ELSE LET output == outputs[k]
             tc == targetCell(cell, output)
             tt == targetTime(time, output)
             entry == [t |-> time, c |-> cell, rule |-> rule, output |-> k,
                       time |-> tt, cell |-> tc,
                       signal |-> output.signal, seen |-> Len(evals) + 1]
         IN  IF tt < Length(dg) /\ 0 <= tc /\ tc < size
             THEN IF tt \notin DOMAIN dg
                  THEN [heap |-> h,
                        writes |-> Append(log, entry @@ [effect |-> "TypeError"]),
                        error |-> "TypeError"]
                  ELSE LET old == h[dg[tt]][tc]
                           eff == IF output.signal \in old THEN "present"
                                                           ELSE "added"
                       IN  forEachOutput(outputs, k + 1, dg, size, time, cell, rule,
                              [h EXCEPT ![dg[tt]][tc] =
                                            add(old, output.signal)],
                              Append(log, entry @@ [effect |-> eff]))
             ELSE forEachOutput(outputs, k + 1, dg, size, time, cell, rule, h,
                                Append(log, entry @@ [effect |-> "dropped"]))

automatonVars == <<rules, minNeighbor, maxNeighbor, maxFutureDepth, revision>>

\* the locals of the constructor and of a parser called on its own
parserVars == <<rulesString, lines, lineNo, indent, conditionString,
                outputsString, conditionsStack, condition, ruleLines,
                argument, result>>

\* the arguments, locals and histories of makeDiagram
diagramVars == <<heap, initialConfiguration, initialCells, nbSteps, nbCells,
                 diagram, t, c, r, neighborhood, evals, writes, results>>
argVars == <<initialConfiguration, initialCells, nbSteps>>

\* lines 259-263: the diagram is the Configuration passed in followed by
\* nbSteps new ones
makeDiagram ==
    /\ pc = "makeDiagram"
    /\ LET size == getSize(heap[initialConfiguration])
           first == Len(heap) + 1
       IN  /\ nbCells' = size
           /\ heap' = heap \o [i \in 1 .. nbSteps |-> Configuration(size)]
           /\ diagram' = diagramArray(initialConfiguration, first, nbSteps)
    /\ t' = 0
    /\ pc' = "for_t"
    /\ UNCHANGED <<automatonVars, parserVars, argVars, c, r, neighborhood,
                   error, evals, writes, results>>

\* line 264-265: for (let t = 0; t < nbSteps; t++), loop entered
ForT ==
    /\ pc = "for_t"
    /\ t < nbSteps
    /\ c' = 0
    /\ pc' = "for_c"
    /\ UNCHANGED <<automatonVars, parserVars, argVars, heap, nbCells, diagram,
                   t, r, neighborhood, error, evals, writes, results>>

\* line 280: return diagram
Return ==
    /\ pc = "for_t"
    /\ ~(t < nbSteps)
    /\ pc' = "done"
    /\ UNCHANGED <<automatonVars, parserVars, argVars, heap, nbCells, diagram,
                   t, c, r, neighborhood, error, evals, writes, results>>

\* lines 266-267: for (let c = 0; c < nbCells; c++), loop entered: the
\* neighborhood of the cell is built
ForC ==
    /\ pc = "for_c"
    /\ c < nbCells
    /\ neighborhood' = getNeighborhood(diagram[t], getSize(heap[diagram[t]]), c,
                                       minNeighbor, maxNeighbor)
    /\ r' = 0
    /\ pc' = "for_rule"
    /\ UNCHANGED <<automatonVars, parserVars, argVars, heap, nbCells, diagram,
                   t, c, error, evals, writes, results>>

\* line 266, loop left: t++
EndForC ==
    /\ pc = "for_c"
    /\ ~(c < nbCells)
    /\ t' = t + 1
    /\ pc' = "for_t"
    /\ UNCHANGED <<automatonVars, parserVars, argVars, heap, nbCells, diagram,
                   c, r, neighborhood, error, evals, writes, results>>

\* lines 268-276: one rule of for (const rule of this.rules)
ForRule ==
    /\ pc = "for_rule"
    /\ r < Len(rules)
    /\ LET rule == rules[r + 1]
           signals == Deref(heap, neighborhood)
           value == eval(rule.condition, signals)
           res == forEachOutput(rule.outputs, 1, diagram, nbCells, t, c, r,
                                heap, writes)
       IN  /\ evals' = Append(evals, [t |-> t, c |-> c, rule |-> r,
                                      signals |-> signals, value |-> value])
           /\ IF value = "TypeError"
              THEN /\ pc' = "error"
                   /\ error' = "TypeError in eval"
                   /\ UNCHANGED <<heap, writes, r>>
              ELSE IF value = "true"
              THEN /\ heap' = res.heap
                   /\ writes' = res.writes
                   /\ IF res.error = "none"
                      THEN r' = r + 1 /\ UNCHANGED <<pc, error>>
                      ELSE /\ pc' = "error"
                           /\ error' = "TypeError in output"
                           /\ UNCHANGED r
              ELSE /\ r' = r + 1
                   /\ UNCHANGED <<heap, writes, pc, error>>
    /\ UNCHANGED <<automatonVars, parserVars, argVars, nbCells, diagram, t, c,
                   neighborhood, results>>

\* line 268, loop left: c++
EndForRule ==
    /\ pc = "for_rule"
    /\ ~(r < Len(rules))
    /\ c' = NextCell(c)
    /\ pc' = "for_c"
    /\ UNCHANGED <<automatonVars, parserVars, argVars, heap, nbCells, diagram,
                   t, r, neighborhood, error, evals, writes, results>>

(***************************************************************************)
(* The calls of makeDiagram that are explored.                             *)
(***************************************************************************)
\* Rules that the parser of part_000 builds from the line in the comment
\* (an output there is time/coordinate.name, a literal coordinate.name).
RuleSelfWrite ==        \* A: 0/0.B
    Rule(Literal(SigA, 0, 0), <<RuleOutput(SigB, 0, 0)>>)
RuleMoveRight ==        \* -B: 1.A
    Rule(Negation(Literal(SigB, 0, 0)), <<RuleOutput(SigA, 1, 1)>>)
RuleLeftLiteral ==      \* -1.A: B
    Rule(Literal(SigA, -1, 0), <<RuleOutput(SigB, 0, 1)>>)
RuleLeftAndFar ==       \* A: 0/-1.B 2/0.A
    Rule(Literal(SigA, 0, 0), <<RuleOutput(SigB, -1, 0), RuleOutput(SigA, 0, 2)>>)
RulePast ==             \* -A: -1/0.A
    Rule(Negation(Literal(SigA, 0, 0)), <<RuleOutput(SigA, 0, -1)>>)
RuleRightNow ==         \* A: 0/1.B
    Rule(Literal(SigA, 0, 0), <<RuleOutput(SigB, 1, 0)>>)

RuleNotLeft ==          \* -1.-A: B
    Rule(Negation(Literal(SigA, -1, 0)), <<RuleOutput(SigB, 0, 1)>>)
RuleHereAndLeft ==      \* (A -1.A): B
    Rule(Conjunction(<<Literal(SigA, 0, 0), Literal(SigA, -1, 0)>>),
         <<RuleOutput(SigB, 0, 1)>>)

RuleMenu == {RuleSelfWrite, RuleMoveRight, RuleLeftLiteral, RuleLeftAndFar,
             RulePast, RuleRightNow, RuleNotLeft, RuleHereAndLeft}

RuleLists == UNION {[1 .. n -> RuleMenu] : n \in 0 .. MaxRules}

CellMenu == {{}, {SigA}}

InitialCells == UNION {[0 .. n - 1 -> CellMenu] : n \in 1 .. MaxCells}

\* no constructor and no parser is running
ParserIdle ==
    /\ rulesString = <<>>
    /\ lines = <<>>
    /\ lineNo = 0
    /\ indent = 0
    /\ conditionString = Undefined
    /\ outputsString = <<>>
    /\ conditionsStack = <<>>
    /\ condition = Clause
    /\ ruleLines = <<>>
    /\ argument = <<>>
    /\ result = Thrown("none")

Init ==
    /\ rules \in RuleLists
    /\ minNeighbor = 0
    /\ maxNeighbor = 0
    /\ initialCells \in InitialCells
    /\ heap = <<initialCells>>
    /\ initialConfiguration = 1
    /\ nbSteps \in 0 .. MaxSteps
    /\ nbCells = 0
    /\ diagram = <<>>
    /\ t = 0
    /\ c = 0
    /\ r = 0
    /\ neighborhood = <<>>
    /\ pc = "makeDiagram"
    /\ error = "none"
    /\ evals = <<>>
    /\ writes = <<>>
    /\ results = <<>>
    /\ maxFutureDepth = 1
    /\ revision = "part_000"
    /\ ParserIdle

Next ==
    \/ makeDiagram
    \/ ForT
    \/ Return
    \/ ForC
    \/ EndForC
    \/ ForRule
    \/ EndForRule

Spec == Init /\ [][Next]_vars

(***************************************************************************)
(* A second call (Diagram.svelte: the reactive block makes a new           *)
(* Configuration, seeds it and calls makeDiagram each time it runs).       *)
(***************************************************************************)
\* what a finished call gave its caller: the diagram, or the exception
Outcome ==
    IF pc = "done"
    THEN [pc |-> pc, error |-> error,
          rows |-> [i \in DOMAIN diagram |-> heap[diagram[i]]]]
    ELSE [pc |-> pc, error |-> error, rows |-> <<>>]

\* (mutant) the Configuration of the previous call is passed again
seedConfigurationReused(cells) == heap[initialConfiguration]

\* Diagram.svelte 17-18: the cells of the Configuration made for a call
seedConfiguration(cells) == cells

CallAgain ==
    /\ pc \in {"done", "error"}
    /\ Len(results) + 1 < MaxCalls
    /\ results' = Append(results, Outcome)
    /\ heap' = Append(heap, seedConfiguration(initialCells))
    /\ initialConfiguration' = Len(heap) + 1
    /\ nbCells' = 0
    /\ diagram' = <<>>
    /\ t' = 0
    /\ c' = 0
    /\ r' = 0
    /\ neighborhood' = <<>>
    /\ pc' = "makeDiagram"
    /\ error' = "none"
    /\ evals' = <<>>
    /\ writes' = <<>>
    /\ UNCHANGED <<automatonVars, parserVars, initialCells, nbSteps>>

NextTwoCalls ==
    \/ makeDiagram
    \/ ForT
    \/ Return
    \/ ForC
    \/ EndForC
    \/ ForRule
    \/ EndForRule
    \/ CallAgain

SpecTwoCalls == Init /\ [][NextTwoCalls]_vars

(***************************************************************************)
(* Automaton.constructor                                                   *)
(***************************************************************************)
\* line 117: the indentation of a line
lineIndent(raw) == searchNonSpace(raw)

\* line 118: the line without its comment and surrounding whitespace
lineText(raw) == trim(removeComment(raw))

\* lines 121-129: the part of a line before its first colon, undefined when
\* the line has no colon
conditionPart(line) ==
    IF includes(line, ":") THEN Defined(split(line, ":")[1]) ELSE Undefined

\* (mutant) the whole line is taken for its outputs
outputsPartWhole(line) == line

\* lines 121-129: the part between the first and the second colon, the whole
\* line when it has no colon
outputsPart(line) ==
    IF includes(line, ":") THEN split(line, ":")[2] ELSE line

\* if (conditionString): neither undefined nor the empty string
Truthy(optional) == optional.defined /\ optional.value # <<>>

\* (mutant) only deeper conditions are removed from the stack
RECURSIVE popStackDeeper(_, _)
popStackDeeper(stack, ind) ==
    IF Len(stack) > 0 /\ stack[1].indent > ind
    THEN popStackDeeper(Tail(stack), ind)
    ELSE stack

\* (mutant) at most one condition is removed from the stack
popStackOnce(stack, ind) ==
    IF Len(stack) > 0 /\ stack[1].indent >= ind THEN Tail(stack) ELSE stack

\* lines 132-135: while (the top's indent >= indent) conditionsStack.shift()
RECURSIVE popStack(_, _)
popStack(stack, ind) ==
    IF Len(stack) > 0 /\ stack[1].indent >= ind
    THEN popStack(Tail(stack), ind)
    ELSE stack

\* (mutant) a line without a condition and without a parent gets the empty
\* clause
parentConditionOrEmpty(stack) ==
    IF stack = <<>> THEN Parsed(Clause, <<>>)
    ELSE Parsed(stack[1].condition, <<>>)

\* line 149: conditionsStack[0].condition; conditionsStack[0] is undefined
\* when the stack is empty
parentCondition(stack) ==
    IF stack = <<>> THEN Thrown("TypeError")
    ELSE Parsed(stack[1].condition, <<>>)

\* lines 140-145: the condition of a line that has a condition part
lineCondition(rev, stack, str) ==
    LET parsed == parseCondition(rev, str)
    IN  IF parsed.status # "ok" THEN parsed
        ELSE IF Len(stack) = 0 THEN parsed
        ELSE Parsed(Conjunction(<<stack[1].condition, parsed.clause>>), <<>>)

constructorVars == <<lines, lineNo, indent, conditionString, outputsString,
                     conditionsStack, condition, ruleLines>>

\* lines 110-116
Constructor ==
    /\ pc = "constructor"
    /\ rules' = <<>>
    /\ minNeighbor' = 0
    /\ maxNeighbor' = 0
    /\ maxFutureDepth' = 1
    /\ conditionsStack' = <<>>
    /\ lines' = split(rulesString, "\n")
    /\ lineNo' = 1
    /\ pc' = "for_line"
    /\ UNCHANGED <<diagramVars, revision, rulesString, indent, conditionString,
                   outputsString, condition, ruleLines, argument, result,
                   error>>

\* lines 117-119: a line that is empty without its comment is passed over
SkipLine ==
    /\ pc = "for_line"
    /\ lineNo <= Len(lines)
    /\ Len(lineText(lines[lineNo])) = 0
    /\ lineNo' = lineNo + 1
    /\ UNCHANGED <<diagramVars, automatonVars, rulesString, lines, indent,
                   conditionString, outputsString, conditionsStack, condition,
                   ruleLines, argument, result, pc, error>>

\* lines 117-129: the indent, the condition part and the outputs part
ReadLine ==
    /\ pc = "for_line"
    /\ lineNo <= Len(lines)
    /\ Len(lineText(lines[lineNo])) # 0
    /\ indent' = lineIndent(lines[lineNo])
    /\ conditionString' = conditionPart(lineText(lines[lineNo]))
    /\ outputsString' = outputsPart(lineText(lines[lineNo]))
    /\ pc' = "pop"
    /\ UNCHANGED <<diagramVars, automatonVars, rulesString, lines, lineNo,
                   conditionsStack, condition, ruleLines, argument, result,
                   error>>

\* lines 132-135
PopStack ==
    /\ pc = "pop"
    /\ conditionsStack' = popStack(conditionsStack, indent)
    /\ pc' = "condition"
    /\ UNCHANGED <<diagramVars, automatonVars, rulesString, lines, lineNo,
                   indent, conditionString, outputsString, condition,
                   ruleLines, argument, result, error>>

\* lines 138-150
PrepareCondition ==
    /\ pc = "condition"
    /\ LET found == IF Truthy(conditionString)
                    THEN lineCondition(revision, conditionsStack,
                                       conditionString.value)
                    ELSE parentCondition(conditionsStack)
       IN  IF found.status = "ok"
           THEN /\ condition' = found.clause
                /\ conditionsStack' =
                       IF Truthy(conditionString)
                       THEN <<[condition |-> found.clause, indent |-> indent]>>
                                \o conditionsStack
                       ELSE conditionsStack
                /\ pc' = "outputs"
                /\ UNCHANGED error
           ELSE /\ pc' = IF found.status = "loop" THEN "loop" ELSE "error"
                /\ error' = found.status
                /\ UNCHANGED <<condition, conditionsStack>>
    /\ UNCHANGED <<diagramVars, automatonVars, rulesString, lines, lineNo,
                   indent, conditionString, outputsString, ruleLines, argument,
                   result>>

\* lines 152-156, and the end of the loop body
EmitRule ==
    /\ pc = "outputs"
    /\ LET parsed == parseOutputs(revision, outputsString, maxFutureDepth)
       IN  IF outputsString = <<>>
           THEN /\ lineNo' = lineNo + 1
                /\ pc' = "for_line"
                /\ UNCHANGED <<rules, ruleLines, maxFutureDepth, error>>
           ELSE IF parsed.status = "ok"
           THEN /\ rules' = Append(rules, Rule(condition, parsed.outputs))
                /\ ruleLines' = Append(ruleLines, lineNo)
                /\ maxFutureDepth' = parsed.maxFutureDepth
                /\ lineNo' = lineNo + 1
                /\ pc' = "for_line"
                /\ UNCHANGED error
           ELSE /\ pc' = "error"
                /\ error' = parsed.status
                /\ UNCHANGED <<rules, ruleLines, maxFutureDepth, lineNo>>
    /\ UNCHANGED <<diagramVars, minNeighbor, maxNeighbor, revision, rulesString,
                   lines, indent, conditionString, outputsString,
                   conditionsStack, condition, argument, result>>

\* line 157: no line is left, the Automaton is constructed
Constructed ==
    /\ pc = "for_line"
    /\ lineNo > Len(lines)
    /\ pc' = "constructed"
    /\ UNCHANGED <<diagramVars, automatonVars, parserVars, error>>

(***************************************************************************)
(* The texts that are parsed.                                              *)
(***************************************************************************)
MaxLines == 3

LineA == <<"A", ":">>    \* "A:"
LineOut == <<"B">>    \* "B"
LineJunk == <<"(", "A", "!", "B", ")", ":", " ", "B", "!">>    \* "(A!B): B!"
LineComment == <<"#", "c">>    \* "#c"
LineOpen == <<"(", "A", ":", " ", "B">>    \* "(A: B"
LineB == <<" ", "B", ":">>    \* " B:"
LineNotB == <<" ", "-", "B", ":", " ", "1", ".", "A">>    \* " -B: 1.A"
LineOutA == <<" ", "A">>    \* " A"
LineNoCondition == <<" ", ":", " ", "B">>    \* " : B"
LineNotA == <<" ", " ", "-", "A", ":", " ", "B">>    \* "  -A: B"
LineOutB == <<" ", " ", "B">>    \* "  B"

LineMenu == {LineA, LineOut, LineJunk, LineComment, LineOpen, LineB, LineNotB, LineOutA, LineNoCondition, LineNotA, LineOutB}

\* lines joined by "\n"
RECURSIVE joinLines(_)
joinLines(list) ==
    IF Len(list) = 0 THEN <<>>
    ELSE IF Len(list) = 1 THEN list[1]
    ELSE list[1] \o <<"\n">> \o joinLines(Tail(list))

RulesStrings ==
    {joinLines(list) :
        list \in UNION {[1 .. n -> LineMenu] : n \in 0 .. MaxLines}}

\* nothing of makeDiagram is running
DiagramIdle ==
    /\ heap = <<>>
    /\ initialConfiguration = 0
    /\ initialCells = <<>>
    /\ nbSteps = 0
    /\ nbCells = 0
    /\ diagram = <<>>
    /\ t = 0
    /\ c = 0
    /\ r = 0
    /\ neighborhood = <<>>
    /\ evals = <<>>
    /\ writes = <<>>
    /\ results = <<>>

InitParse ==
    /\ revision \in Revisions
    /\ rulesString \in RulesStrings
    /\ rules = <<>>
    /\ minNeighbor = 0
    /\ maxNeighbor = 0
    /\ maxFutureDepth = 0
    /\ lines = <<>>
    /\ lineNo = 0
    /\ indent = 0
    /\ conditionString = Undefined
    /\ outputsString = <<>>
    /\ conditionsStack = <<>>
    /\ condition = Clause
    /\ ruleLines = <<>>
    /\ argument = <<>>
    /\ result = Thrown("none")
    /\ pc = "constructor"
    /\ error = "none"
    /\ DiagramIdle

NextParse ==
    \/ Constructor
    \/ SkipLine
    \/ ReadLine
    \/ PopStack
    \/ PrepareCondition
    \/ EmitRule
    \/ Constructed

SpecParse == InitParse /\ [][NextParse]_vars

(***************************************************************************)
(* parseCondition called on its own                                        *)
(***************************************************************************)
MaxLength == 4

ConditionAlphabet == {"A", "(", ")", "[", "]", "-", "!", "1", "."}

ConditionStrings ==
    UNION {[1 .. n -> ConditionAlphabet] : n \in 1 .. MaxLength}

InitCondition ==
    /\ revision \in Revisions
    /\ argument \in ConditionStrings
    /\ result = Thrown("none")
    /\ pc = "parseCondition"
    /\ error = "none"
    /\ rules = <<>>
    /\ minNeighbor = 0
    /\ maxNeighbor = 0
    /\ maxFutureDepth = 1
    /\ rulesString = <<>>
    /\ lines = <<>>
    /\ lineNo = 0
    /\ indent = 0
    /\ conditionString = Undefined
    /\ outputsString = <<>>
    /\ conditionsStack = <<>>
    /\ condition = Clause
    /\ ruleLines = <<>>
    /\ DiagramIdle

ParseCondition ==
    /\ pc = "parseCondition"
    /\ result' = parseCondition(revision, argument)
    /\ pc' = "returned"
    /\ UNCHANGED <<diagramVars, automatonVars, rulesString, lines, lineNo,
                   indent, conditionString, outputsString, conditionsStack,
                   condition, ruleLines, argument, error>>

NextCondition == ParseCondition

SpecCondition == InitCondition /\ [][NextCondition]_vars

(***************************************************************************)
(* Properties of makeDiagram                                               *)
(***************************************************************************)
Fired == {i \in 1 .. Len(evals) : evals[i].value = "true"}

InDiagram(time, cell) ==
    /\ 0 <= time /\ time <= nbSteps
    /\ 0 <= cell /\ cell < getSize(initialCells)

\* C1: makeDiagram returns nbSteps + 1 Configurations, each of as many cells
\* as the initial Configuration, and element 0 is the Configuration object
\* that was passed in.
C1_DiagramShape ==
    pc = "done" =>
        /\ DOMAIN diagram = 0 .. nbSteps
        /\ Length(diagram) = nbSteps + 1
        /\ \A i \in DOMAIN diagram :
               DOMAIN heap[diagram[i]] = 0 .. getSize(initialCells) - 1
        /\ diagram[0] = initialConfiguration

C1_Witness ==
    /\ pc = "done"
    /\ nbSteps = 2
    /\ getSize(initialCells) = 2
    /\ \E i \in 1 .. Len(writes) : writes[i].effect = "added"

\* the evaluation after evaluation i, in the order for t / for c / for rule
Follows(e, f) ==
    \/ f.t = e.t /\ f.c = e.c /\ f.rule = e.rule + 1
    \/ f.t = e.t /\ f.c = e.c + 1 /\ f.rule = 0 /\ e.rule = Len(rules) - 1
    \/ /\ f.t = e.t + 1 /\ f.c = 0 /\ f.rule = 0
       /\ e.c = nbCells - 1 /\ e.rule = Len(rules) - 1

SameStepWrites ==
    {i \in 1 .. Len(writes) :
        writes[i].time = writes[i].t /\ writes[i].effect \in {"added", "present"}}

C3_OutputsWritten ==
    pc = "done" =>
        \A i \in Fired :
            LET e == evals[i]
                outputs == rules[e.rule + 1].outputs
            IN  \A k \in 1 .. Len(outputs) :
                    InDiagram(e.t + outputs[k].futureStep,
                              e.c + outputs[k].neighbor)
                        => outputs[k].signal \in
                               Cells(e.t + outputs[k].futureStep,
                                     e.c + outputs[k].neighbor)

\* a rule fired with an output 0/0 (same cell, same time step), one with an
\* output to another cell and a later time, in a returned diagram
C3_Witness ==
    /\ pc = "done"
    /\ \E i \in Fired : \E k \in 1 .. Len(rules[evals[i].rule + 1].outputs) :
           LET o == rules[evals[i].rule + 1].outputs[k]
           IN  /\ o.futureStep = 0 /\ o.neighbor = 0
               /\ o.signal \notin initialCells[evals[i].c]
    /\ \E i \in Fired : \E k \in 1 .. Len(rules[evals[i].rule + 1].outputs) :
           LET o == rules[evals[i].rule + 1].outputs[k]
           IN  /\ o.futureStep = 1 /\ o.neighbor = 1
               /\ InDiagram(evals[i].t + 1, evals[i].c + 1)

\* C4: an output of a fired rule whose target cell is outside [0, N) or whose
\* target time is outside 0 .. nbSteps is dropped: it raises nothing and
\* changes no cell.
C4_OutsideIsDropped ==
    \A i \in 1 .. Len(writes) :
        ~InDiagram(writes[i].time, writes[i].cell)
            => writes[i].effect = "dropped"

\* C5 as stated: with zero rules every returned configuration is empty.
C5_AllEmpty ==
    (pc = "done" /\ rules = <<>>) =>
        \A i \in DOMAIN diagram : \A k \in DOMAIN heap[diagram[i]] :
            Cells(i, k) = {}

\* C5 amended: with zero rules, element 0 of the returned diagram holds
\* exactly the signals of the initial Configuration and every later
\* configuration is empty.
C5_InitialThenEmpty ==
    (pc = "done" /\ rules = <<>>) =>
        \A i \in DOMAIN diagram : \A k \in DOMAIN heap[diagram[i]] :
            Cells(i, k) = IF i = 0 THEN initialCells[k] ELSE {}

C5_Witness ==
    /\ pc = "done"
    /\ rules = <<>>
    /\ nbSteps = 2
    /\ \E k \in DOMAIN initialCells : initialCells[k] # {}

RECURSIVE Nested(_, _, _)
Nested(str, i, open) ==
    IF i > Len(str) THEN open = <<>>
    ELSE IF str[i] = "(" THEN Nested(str, i + 1, <<")">> \o open)
    ELSE IF str[i] = "[" THEN Nested(str, i + 1, <<"]">> \o open)
    ELSE IF str[i] \in {")", "]"}
    THEN open # <<>> /\ Head(open) = str[i] /\ Nested(str, i + 1, Tail(open))
    ELSE Nested(str, i + 1, open)

Unbalanced(str) == ~Nested(str, 1, <<>>)

Failures == {"RuleParsingException", "TypeError"}

\* C7: parsing a condition text whose grouping tokens are unbalanced ends
\* with a parse failure: it does not go on for ever and gives no clause.
C7_UnbalancedFails ==
    (pc = "returned" /\ Unbalanced(argument)) => result.status \in Failures

\* a character that belongs to no item, grouping token or separator
ItemChars ==
    signalNameChars \cup {"(", ")", "[", "]", "+", "-", "/", ".", ":"}
        \cup Whitespace

HasJunk(raw) == \E i \in 1 .. Len(lineText(raw)) : lineText(raw)[i] \notin ItemChars

\* C8: a line with text that matches no item stops the parsing with an
\* error: the parser never goes past such a line and emits no rule for it.
C8_JunkFails ==
    /\ \A k \in 1 .. Len(lines) : k < lineNo => ~HasJunk(lines[k])
    /\ \A i \in 1 .. Len(ruleLines) : ~HasJunk(lines[ruleLines[i]])

\* C9: a line without a condition part whose stack of open conditions is
\* empty once popped makes the constructor fail, and no rule is added.
C9_NoParentFails ==
    [][(pc = "condition" /\ ~Truthy(conditionString) /\ conditionsStack = <<>>)
           => (pc' = "error" /\ rules' = rules)]_vars

\* the failure of such a line, after a header that the line has closed, and
\* that of a line whose text before the colon is empty
C9_Witness ==
    /\ pc = "error"
    /\ error = "TypeError"
    /\ ~Truthy(conditionString)
    /\ conditionsStack = <<>>
    /\ \/ \E k \in 1 .. lineNo - 1 : Truthy(conditionPart(lineText(lines[k])))
       \/ conditionString.defined

\* the lines that are not passed over
Blank(k) == Len(lineText(lines[k])) = 0

HasCondition(k) == Truthy(conditionPart(lineText(lines[k])))

\* the open ancestors of line k: the earlier lines with a condition and a
\* smaller indent that no line in between, of at most their indent, closed
OpenAncestors(k) ==
    {j \in 1 .. k - 1 :
        /\ ~Blank(j)
        /\ HasCondition(j)
        /\ lineIndent(lines[j]) < lineIndent(lines[k])
        /\ \A m \in j + 1 .. k - 1 :
               ~Blank(m) => lineIndent(lines[m]) > lineIndent(lines[j])}

\* the condition written on line k itself
OwnCondition(k) ==
    parseCondition(revision, conditionPart(lineText(lines[k])).value).clause

TestNeighborhoods == [{-1, 0} -> SUBSET {SigA, SigB}]

\* C10: the condition of every emitted rule is true exactly where the
\* condition of its own line (if it has one) and the conditions of all its
\* open ancestors, and of no other line, are true.
C10_EffectiveCondition ==
    \A i \in 1 .. Len(rules) :
        LET k == ruleLines[i]
            parts == OpenAncestors(k) \cup (IF HasCondition(k) THEN {k} ELSE {})
            own == {OwnCondition(j) : j \in parts}
        IN  \A signals \in TestNeighborhoods :
                (eval(rules[i].condition, signals) = "true")
                    <=> \A clause \in own : eval(clause, signals) = "true"

\* a rule of a line with an open ancestor and, before it, a line with a
\* condition at its own indent that is not one of its ancestors
C10_Witness ==
    \E i \in 1 .. Len(rules) :
        LET k == ruleLines[i]
        IN  /\ OpenAncestors(k) # {}
            /\ HasCondition(k)
            /\ \E j \in 1 .. k - 1 :
                   /\ HasCondition(j)
                   /\ lineIndent(lines[j]) = lineIndent(lines[k])
                   /\ \E a \in OpenAncestors(k) : a < j
                   /\ \E signals \in TestNeighborhoods :
                          /\ eval(rules[i].condition, signals) = "true"
                          /\ eval(OwnCondition(j), signals) = "false"

(***************************************************************************)
(* parseOutputs on its own                                                 *)
(***************************************************************************)
MaxOutputLength == 5

OutputAlphabet == {"A", "0", "1", "/", ".", "-", " "}

OutputStrings ==
    UNION {[1 .. n -> OutputAlphabet] : n \in 1 .. MaxOutputLength}

InitOutputs ==
    /\ revision \in Revisions
    /\ argument \in OutputStrings
    /\ result = Thrown("none")
    /\ pc = "parseOutputs"
    /\ error = "none"
    /\ rules = <<>>
    /\ minNeighbor = 0
    /\ maxNeighbor = 0
    /\ maxFutureDepth = 1
    /\ rulesString = <<>>
    /\ lines = <<>>
    /\ lineNo = 0
    /\ indent = 0
    /\ conditionString = Undefined
    /\ outputsString = <<>>
    /\ conditionsStack = <<>>
    /\ condition = Clause
    /\ ruleLines = <<>>
    /\ DiagramIdle

\* this.parseOutputs(outputsString): the outputs returned, or the exception,
\* and this.maxFutureDepth as the call leaves it
ParseOutputs ==
    /\ pc = "parseOutputs"
    /\ result' = parseOutputs(revision, argument, maxFutureDepth)
    /\ maxFutureDepth' = result'.maxFutureDepth
    /\ pc' = "returned"
    /\ UNCHANGED <<diagramVars, rules, minNeighbor, maxNeighbor, revision,
                   rulesString, lines, lineNo, indent, conditionString,
                   outputsString, conditionsStack, condition, ruleLines,
                   argument, error>>

NextOutputs == ParseOutputs

SpecOutputs == InitOutputs /\ [][NextOutputs]_vars

(***************************************************************************)
(* Properties of parseOutputs                                              *)
(***************************************************************************)
\* the decimal text of a number, as a template literal writes it
RECURSIVE naturalString(_)
naturalString(n) ==
    IF n < 10 THEN <<CHOOSE ch \in Digits : DigitValue(ch) = n>>
    ELSE naturalString(n \div 10) \o naturalString(n % 10)

numberString(n) ==
    IF n < 0 THEN <<"-">> \o naturalString(0 - n) ELSE naturalString(n)

\* the numbers and names that the items of the claims are written with
ItemNumbers == -1 .. 11
ItemNames == {SigA}

\* C11: the item a/b.name gives the one output with futureStep a and
\* neighbor b, the item b.name the output with futureStep 1 and neighbor b,
\* and a bare name the output with futureStep 1 and neighbor 0.
C11_OutputItems ==
    pc = "returned" =>
        \A name \in ItemNames :
            /\ argument = name
                   => /\ result.status = "ok"
                      /\ result.outputs = <<RuleOutput(name, 0, 1)>>
            /\ \A b \in ItemNumbers :
                   /\ argument = numberString(b) \o <<".">> \o name
                          => /\ result.status = "ok"
                             /\ result.outputs = <<RuleOutput(name, b, 1)>>
                   /\ \A a \in ItemNumbers :
                          argument = numberString(a) \o <<"/">>
                                         \o numberString(b) \o <<".">> \o name
                              => /\ result.status = "ok"
                                 /\ result.outputs = <<RuleOutput(name, b, a)>>

(***************************************************************************)
(* toString, and the construction of a second Automaton from the text      *)
(***************************************************************************)
\* Array.prototype.join
RECURSIVE join(_, _)
join(list, separator) ==
    IF Len(list) = 0 THEN <<>>
    ELSE IF Len(list) = 1 THEN list[1]
    ELSE list[1] \o separator \o join(Tail(list), separator)

\* Clause.ts: toString of Clause, Negation, Conjunction, Disjunction, Literal
RECURSIVE clauseString(_)
RECURSIVE clauseStrings(_)

clauseStrings(subclauses) ==
    IF subclauses = <<>> THEN <<>>
    ELSE <<clauseString(Head(subclauses))>> \o clauseStrings(Tail(subclauses))

clauseString(clause) ==
    CASE clause.kind = "Clause" -> <<>>
      [] clause.kind = "Negation" -> <<"-">> \o clauseString(clause.subclause)
      [] clause.kind = "Conjunction" ->
             <<"(">> \o join(clauseStrings(clause.subclauses), <<" ">>) \o <<")">>
      [] clause.kind = "Disjunction" ->
             <<"[">> \o join(clauseStrings(clause.subclauses), <<" ">>) \o <<"]">>
      [] clause.kind = "Literal" ->
             IF clause.position = 0
             THEN clause.signal
             ELSE numberString(clause.position) \o <<".">> \o clause.signal

\* RuleOutput.toString
outputString(output) ==
    IF output.futureStep = 1
    THEN numberString(output.neighbor) \o <<".">> \o output.signal
    ELSE numberString(output.neighbor) \o <<"/">>
             \o numberString(output.futureStep) \o <<".">> \o output.signal

RECURSIVE outputStrings(_)
outputStrings(outputs) ==
    IF outputs = <<>> THEN <<>>
    ELSE <<outputString(Head(outputs))>> \o outputStrings(Tail(outputs))

\* Rule.toString
ruleString(rule) ==
    clauseString(rule.condition) \o <<":", " ">>
        \o join(outputStrings(rule.outputs), <<" ">>)

RECURSIVE ruleStrings(_)
ruleStrings(list) ==
    IF list = <<>> THEN <<>>
    ELSE <<ruleString(Head(list))>> \o ruleStrings(Tail(list))

\* Automaton.toString
automatonString(list) == join(ruleStrings(list), <<"\n">>)

\* the lines of the texts that are parsed, rendered and parsed again
LineTwoAhead == <<" ", "2", "/", "0", ".", "B">>    \* " 2/0.B"
LineEither == <<"[", "A", " ", "B", "]", ":", " ", "B">>    \* "[A B]: B"
LineLeft == <<"-", "A", ":", " ", "-", "1", ".", "A">>    \* "-A: -1.A"

RoundTripLines == {LineA, LineNotB, LineTwoAhead, LineEither, LineLeft, LineOutB}

RoundTripStrings ==
    {joinLines(list) :
        list \in UNION {[1 .. n -> RoundTripLines] : n \in 0 .. MaxLines}}

InitRoundTrip ==
    /\ revision \in Revisions
    /\ rulesString \in RoundTripStrings
    /\ rules = <<>>
    /\ minNeighbor = 0
    /\ maxNeighbor = 0
    /\ maxFutureDepth = 0
    /\ lines = <<>>
    /\ lineNo = 0
    /\ indent = 0
    /\ conditionString = Undefined
    /\ outputsString = <<>>
    /\ conditionsStack = <<>>
    /\ condition = Clause
    /\ ruleLines = <<>>
    /\ argument = <<>>
    /\ result = Thrown("none")
    /\ pc = "constructor"
    /\ error = "none"
    /\ DiagramIdle

\* new Automaton(automaton.toString()): result keeps the rules of the
\* Automaton that is rendered, argument is the text passed to the constructor
Reparse ==
    /\ pc = "constructed"
    /\ result.status = "none"
    /\ result' = [status |-> "rendered", rules |-> rules]
    /\ argument' = automatonString(rules)
    /\ rulesString' = argument'
    /\ ruleLines' = <<>>
    /\ pc' = "constructor"
    /\ UNCHANGED <<diagramVars, automatonVars, lines, lineNo, indent,
                   conditionString, outputsString, conditionsStack, condition,
                   error>>

NextRoundTrip ==
    \/ Constructor
    \/ SkipLine
    \/ ReadLine
    \/ PopStack
    \/ PrepareCondition
    \/ EmitRule
    \/ Constructed
    \/ Reparse

SpecRoundTrip == InitRoundTrip /\ [][NextRoundTrip]_vars

(***************************************************************************)
(* Properties of toString                                                  *)
(***************************************************************************)
\* the (neighbor, signal, futureStep) triples of the outputs of a rule
Triples(rule) ==
    [k \in 1 .. Len(rule.outputs) |->
        <<rule.outputs[k].neighbor, rule.outputs[k].signal,
          rule.outputs[k].futureStep>>]

SameCondition(first, second) ==
    \A signals \in [{-1, 0, 1} -> SUBSET {SigA, SigB}] :
        eval(first, signals) = eval(second, signals)

\* C12: the text that toString gives for a parsed automaton parses, to as
\* many rules, with conditions that evaluate alike on every neighborhood and
\* outputs with the same triples in the same order.
C12_RoundTrip ==
    (result.status = "rendered" /\ pc \in {"constructed", "error", "loop"})
        => /\ pc = "constructed"
           /\ Len(rules) = Len(result.rules)
           /\ \A i \in 1 .. Len(rules) :
                  /\ SameCondition(result.rules[i].condition, rules[i].condition)
                  /\ Triples(result.rules[i]) = Triples(rules[i])

(***************************************************************************)
(* Properties of the fields of a constructed Automaton                     *)
(***************************************************************************)
\* the position offsets of the Literals of a clause
RECURSIVE Positions(_)
Positions(clause) ==
    CASE clause.kind = "Literal" -> {clause.position}
      [] clause.kind = "Negation" -> Positions(clause.subclause)
      [] clause.kind \in {"Conjunction", "Disjunction"} ->
             UNION {Positions(clause.subclauses[k]) :
                        k \in 1 .. Len(clause.subclauses)}
      [] OTHER -> {}

\* the offsets that the rules read from and write to, and 0
Offsets ==
    {0} \cup UNION {Positions(rules[i].condition) : i \in 1 .. Len(rules)}
        \cup UNION {{rules[i].outputs[k].neighbor :
                         k \in 1 .. Len(rules[i].outputs)} :
                    i \in 1 .. Len(rules)}

\* C13: once the Automaton is constructed, minNeighbor is the least and
\* maxNeighbor the greatest of 0, the positions of the Literals of the
\* conditions and the neighbor offsets of the outputs.
C13_NeighborWindow ==
    pc = "constructed" =>
        /\ \A n \in Offsets : minNeighbor <= n /\ n <= maxNeighbor
        /\ minNeighbor \in Offsets
        /\ maxNeighbor \in Offsets

(***************************************************************************)
(* Properties of eval                                                      *)
(***************************************************************************)
\* The reference semantics of a clause on a neighborhood: the empty clause
\* is true, a Literal is true iff its signal is in the set at its position,
\* a Negation is the complement, a Conjunction is true iff all its
\* subclauses are, a Disjunction iff at least one is.
RECURSIVE Holds(_, _)
Holds(clause, signals) ==
    CASE clause.kind = "Clause" -> TRUE
      [] clause.kind = "Literal" ->
             /\ clause.position \in DOMAIN signals
             /\ clause.signal \in signals[clause.position]
      [] clause.kind = "Negation" -> ~Holds(clause.subclause, signals)
      [] clause.kind = "Conjunction" ->
             \A k \in 1 .. Len(clause.subclauses) :
                 Holds(clause.subclauses[k], signals)
      [] clause.kind = "Disjunction" ->
             \E k \in 1 .. Len(clause.subclauses) :
                 Holds(clause.subclauses[k], signals)

\* the evaluation of the clause comes to a Literal whose position is not a
\* key of the neighborhood: every and some go from left to right and stop
\* at the first subclause that decides
RECURSIVE ReadsOutside(_, _)
ReadsOutside(clause, signals) ==
    CASE clause.kind = "Clause" -> FALSE
      [] clause.kind = "Literal" -> clause.position \notin DOMAIN signals
      [] clause.kind = "Negation" -> ReadsOutside(clause.subclause, signals)
      [] clause.kind = "Conjunction" ->
             \E k \in 1 .. Len(clause.subclauses) :
                 /\ ReadsOutside(clause.subclauses[k], signals)
                 /\ \A j \in 1 .. k - 1 :
                        /\ ~ReadsOutside(clause.subclauses[j], signals)
                        /\ Holds(clause.subclauses[j], signals)
      [] clause.kind = "Disjunction" ->
             \E k \in 1 .. Len(clause.subclauses) :
                 /\ ReadsOutside(clause.subclauses[k], signals)
                 /\ \A j \in 1 .. k - 1 :
                        /\ ~ReadsOutside(clause.subclauses[j], signals)
                        /\ ~Holds(clause.subclauses[j], signals)

\* C14: an evaluation that comes to a Literal whose position is not a key of
\* the neighborhood gives neither true nor false: it raises an error, it is
\* the last evaluation of the call, and makeDiagram ends with that error.
C14_OutsideWindowFails ==
    \A i \in 1 .. Len(evals) :
        ReadsOutside(rules[evals[i].rule + 1].condition, evals[i].signals)
            => /\ evals[i].value = "TypeError"
               /\ i = Len(evals)
               /\ pc = "error"
               /\ error = "TypeError in eval"

\* makeDiagram has ended on the evaluation of the Negation of such a Literal
C14_Witness ==
    /\ pc = "error"
    /\ error = "TypeError in eval"
    /\ rules[evals[Len(evals)].rule + 1].condition.kind = "Negation"
    /\ ReadsOutside(rules[evals[Len(evals)].rule + 1].condition,
                    evals[Len(evals)].signals)

(***************************************************************************)
(* The constructors of Clause.ts and eval on their own                     *)
(***************************************************************************)
MaxSubclauses == 3

\* clauses as the parsers build them, to be passed to a constructor
LiteralA == Literal(SigA, 0, 0)
LiteralB == Literal(SigB, 0, 0)
LiteralLeftB == Literal(SigB, -1, 0)

ClauseMenu ==
    {Clause, LiteralA, LiteralLeftB, Negation(LiteralA),
     Conjunction(<<LiteralA, LiteralB>>), Disjunction(<<LiteralB, LiteralLeftB>>),
     Disjunction(<<LiteralA, Disjunction(<<LiteralB, LiteralLeftB>>)>>)}

SubclauseLists == UNION {[1 .. n -> ClauseMenu] : n \in 0 .. MaxSubclauses}

\* the neighborhoods with the keys -1 and 0
Neighborhoods == [{-1, 0} -> SUBSET {SigA, SigB}]

InitClause ==
    /\ argument \in SubclauseLists
    /\ condition = Clause
    /\ result = [list |-> argument]
    /\ pc = "new"
    /\ error = "none"
    /\ revision = "part_000"
    /\ rules = <<>>
    /\ minNeighbor = 0
    /\ maxNeighbor = 0
    /\ maxFutureDepth = 1
    /\ rulesString = <<>>
    /\ lines = <<>>
    /\ lineNo = 0
    /\ indent = 0
    /\ conditionString = Undefined
    /\ outputsString = <<>>
    /\ conditionsStack = <<>>
    /\ ruleLines = <<>>
    /\ DiagramIdle

clauseVars == <<diagramVars, automatonVars, rulesString, lines, lineNo, indent,
                conditionString, outputsString, conditionsStack, ruleLines,
                error>>

\* new Negation(subclause)
NewNegation ==
    /\ pc = "new"
    /\ Len(argument) = 1
    /\ condition' = Negation(argument[1])
    /\ pc' = "eval"
    /\ UNCHANGED <<clauseVars, argument, result>>

\* new Conjunction(subclauses)
NewConjunction ==
    /\ pc = "new"
    /\ condition' = Conjunction(argument)
    /\ pc' = "eval"
    /\ UNCHANGED <<clauseVars, argument, result>>

\* new Disjunction(subclauses); result.list is the array that was passed,
\* as the constructor leaves it
NewDisjunction ==
    /\ pc = "new"
    /\ condition' = Disjunction(argument)
    /\ result' = [list |-> DisjunctionLoop(argument, <<>>, FALSE, 1).list]
    /\ pc' = "eval"
    /\ UNCHANGED <<clauseVars, argument>>

\* condition.eval(signals)
Eval ==
    /\ pc = "eval"
    /\ \E signals \in Neighborhoods :
           result' = [list |-> result.list, signals |-> signals,
                      value |-> eval(condition, signals)]
    /\ pc' = "returned"
    /\ UNCHANGED <<clauseVars, argument, condition>>

NextClause ==
    \/ NewNegation
    \/ NewConjunction
    \/ NewDisjunction
    \/ Eval

SpecClause == InitClause /\ [][NextClause]_vars

(***************************************************************************)
(* Properties of the constructors and of eval                              *)
(***************************************************************************)
\* what the clause made from the list passed to the constructor means
Meaning(kind, list, signals) ==
    CASE kind = "Negation" -> ~Holds(list[1], signals)
      [] kind = "Conjunction" -> \A k \in 1 .. Len(list) : Holds(list[k], signals)
      [] kind = "Disjunction" -> \E k \in 1 .. Len(list) : Holds(list[k], signals)

\* C15: on a neighborhood that has every position of the clause, eval gives
\* true or false, and true exactly when the clause holds in the reference
\* semantics, both as the clause is built and as the list passed to its
\* constructor reads.
C15_EvalIsReference ==
    pc = "returned" =>
        /\ result.value \in {"true", "false"}
        /\ (result.value = "true") <=> Holds(condition, result.signals)
        /\ (result.value = "true")
               <=> Meaning(condition.kind, argument, result.signals)

\* a Disjunction made of a false clause and of a Disjunction has evaluated
\* to true
C15_Witness ==
    /\ pc = "returned"
    /\ condition.kind = "Disjunction"
    /\ Len(argument) >= 2
    /\ ~Holds(argument[1], result.signals)
    /\ \E k \in 2 .. Len(argument) : argument[k].kind = "Disjunction"
    /\ result.value = "true"

\* the clauses of a list
Range(list) == {list[k] : k \in 1 .. Len(list)}

\* C19: a Conjunction has no direct subclause that is a Conjunction of the
\* list it was made from, a Disjunction none that is a Disjunction of its
\* list, and the list passed to the constructor is left as it was.
C19_Flattened ==
    (pc \in {"eval", "returned"} /\ condition.kind \in {"Conjunction", "Disjunction"})
        => /\ \A k \in 1 .. Len(condition.subclauses) :
                  ~(/\ condition.subclauses[k].kind = condition.kind
                    /\ condition.subclauses[k] \in Range(argument))
           /\ result.list = argument

(***************************************************************************)
(* Configuration.getNeighborhood on its own                                *)
(***************************************************************************)
MaxWindow == 2

InitNeighborhood ==
    /\ initialCells \in InitialCells
    /\ heap = <<initialCells>>
    /\ initialConfiguration = 1
    /\ c \in DOMAIN initialCells
    /\ minNeighbor \in (0 - MaxWindow) .. MaxWindow
    /\ maxNeighbor \in (0 - MaxWindow) .. MaxWindow
    /\ neighborhood = <<>>
    /\ pc = "getNeighborhood"
    /\ error = "none"
    /\ rules = <<>>
    /\ maxFutureDepth = 1
    /\ revision = "part_000"
    /\ nbSteps = 0
    /\ nbCells = 0
    /\ diagram = <<>>
    /\ t = 0
    /\ r = 0
    /\ evals = <<>>
    /\ writes = <<>>
    /\ results = <<>>
    /\ ParserIdle

\* config.getNeighborhood(c, minNeighbor, maxNeighbor)
GetNeighborhood ==
    /\ pc = "getNeighborhood"
    /\ neighborhood' = getNeighborhood(initialConfiguration,
                                       getSize(heap[initialConfiguration]), c,
                                       minNeighbor, maxNeighbor)
    /\ pc' = "returned"
    /\ UNCHANGED <<automatonVars, parserVars, argVars, heap, nbCells, diagram,
                   t, c, r, evals, writes, results, error>>

NextNeighborhood == GetNeighborhood

SpecNeighborhood == InitNeighborhood /\ [][NextNeighborhood]_vars

\* C16: the neighborhood has exactly the keys minNeighbor .. maxNeighbor, key
\* i is the set of cell c + i when there is such a cell and a new empty set
\* when there is none, and no cell of the configuration has changed.
C16_Neighborhood ==
    pc = "returned" =>
        /\ DOMAIN neighborhood = minNeighbor .. maxNeighbor
        /\ \A i \in minNeighbor .. maxNeighbor :
               IF c + i \in DOMAIN initialCells
               THEN /\ neighborhood[i] = CellRef(initialConfiguration, c + i)
                    /\ Deref(heap, neighborhood)[i] = initialCells[c + i]
               ELSE /\ neighborhood[i] = NewSet
                    /\ Deref(heap, neighborhood)[i] = {}
        /\ heap = <<initialCells>>

\* a neighborhood that goes past both ends of a configuration with a signal
C16_Witness ==
    /\ pc = "returned"
    /\ \E i \in DOMAIN neighborhood : c + i < 0
    /\ \E i \in DOMAIN neighborhood : c + i >= getSize(initialCells)
    /\ \E i \in DOMAIN neighborhood :
           c + i \in DOMAIN initialCells /\ initialCells[c + i] # {}

\* the futureStep of every output that parseOutputs returned
FutureSteps == {result.outputs[k].futureStep : k \in 1 .. Len(result.outputs)}

\* C17: when parseOutputs returns, maxFutureDepth (1 before the call) is the
\* greatest of 1 and the futureStep of each output that was parsed.
C17_MaxFutureDepth ==
    (pc = "returned" /\ result.status = "ok")
        => /\ \A step \in FutureSteps : maxFutureDepth >= step
           /\ maxFutureDepth \in FutureSteps \cup {1}

\* C18: every output that parseOutputs returns has futureStep >= 1, or
\* futureStep = 0 and neighbor = 0.
C18_OutputsAhead ==
    (pc = "returned" /\ result.status = "ok")
        => \A k \in 1 .. Len(result.outputs) :
               \/ result.outputs[k].futureStep >= 1
               \/ /\ result.outputs[k].futureStep = 0
                  /\ result.outputs[k].neighbor = 0

(***************************************************************************)
(* Properties of the groups of a condition                                 *)
(***************************************************************************)
\* a signal name, and the texts that are one subclause: a name, a negated
\* name, an empty group
IsName(str) == str # <<>> /\ \A k \in 1 .. Len(str) : str[k] \in signalNameChars

IsNegatedName(str) == Len(str) >= 2 /\ str[1] = "-" /\ IsName(Tail(str))

IsSubclause(str) ==
    IsName(str) \/ IsNegatedName(str) \/ str \in {<<"(", ")">>, <<"[", "]">>}

\* the text between the first and the last character
Inner(str) == SubSeq(str, 2, Len(str) - 1)

IsGroup(str) ==
    /\ Len(str) >= 2
    /\ <<str[1], str[Len(str)]>> \in {<<"(", ")">>, <<"[", "]">>}

Always(clause, value) ==
    \A signals \in Neighborhoods : eval(clause, signals) = value

\* the group [ ] is always false, and a group of one subclause is that
\* subclause, without a Conjunction or Disjunction around it
GroupsOfNoneAndOne ==
    /\ argument = <<"[", "]">>
           => result.status = "ok" /\ Always(result.clause, "false")
    /\ (IsGroup(argument) /\ IsSubclause(Inner(argument)))
           => /\ result.status = "ok"
              /\ result.clause = parseCondition(revision, Inner(argument)).clause
              /\ IsName(Inner(argument))
                     => result.clause = Literal(Inner(argument), 0, 0)
              /\ IsNegatedName(Inner(argument))
                     => result.clause
                            = Negation(Literal(Tail(Inner(argument)), 0, 0))

\* C20 as stated: the group ( ) with no subclause is a parse failure, [ ] is
\* always false, and a group of one subclause is that subclause.
C20_EmptyConjunctionFails ==
    pc = "returned" =>
        /\ argument = <<"(", ")">> => result.status \in Failures
        /\ GroupsOfNoneAndOne

\* C20 amended: the group ( ) with no subclause parses to a clause that is
\* always true, [ ] to one that is always false, and a group of one
\* subclause is that subclause.
C20_EmptyGroups ==
    pc = "returned" =>
        /\ argument = <<"(", ")">>
               => result.status = "ok" /\ Always(result.clause, "true")
        /\ GroupsOfNoneAndOne

\* part_000 has parsed the group ( ) to the empty clause
C20_Witness ==
    /\ pc = "returned"
    /\ revision = "part_000"
    /\ argument = <<"(", ")">>
    /\ result = Parsed(Clause, <<>>)

(***************************************************************************)
(* Double negation                                                         *)
(***************************************************************************)

\* the condition text is a name after two minus signs
IsTwiceNegatedName(str) ==
    /\ Len(str) >= 3
    /\ str[1] = "-"
    /\ str[2] = "-"
    /\ IsName(SubSeq(str, 3, Len(str)))

\* C21: a literal under two negation signs parses to the clause of the
\* literal itself, the two negations cancelling when the parser builds the
\* clause, so it evaluates like the positive literal on every neighborhood.
C21_DoubleNegation ==
    (pc = "returned" /\ IsTwiceNegatedName(argument)) =>
        /\ result.status = "ok"
        /\ result.clause = Literal(SubSeq(argument, 3, Len(argument)), 0, 0)
        /\ \A signals \in Neighborhoods :
               eval(result.clause, signals)
                   = eval(Literal(SubSeq(argument, 3, Len(argument)), 0, 0),
                          signals)

(***************************************************************************)
(* The stack of conditions                                                 *)
(***************************************************************************)

\* C22: once the conditions of lines at the indent of the line being read,
\* or deeper, are removed from the stack, every condition left on it has an
\* indent strictly smaller than the line's; and in every state the indents
\* on the stack increase strictly from its bottom to its top.
C22_StackIndents ==
    /\ pc = "condition" =>
           \A k \in 1 .. Len(conditionsStack) :
               conditionsStack[k].indent < indent
    /\ \A k \in 1 .. Len(conditionsStack) - 1 :
           conditionsStack[k].indent > conditionsStack[k + 1].indent

\* the third line is at the indent of the second, which is under the first:
\* the condition of the second line was removed, that of the first is left
C22_Witness ==
    /\ pc = "condition"
    /\ lineNo = 3
    /\ Len(lines) = 3
    /\ HasCondition(1)
    /\ HasCondition(2)
    /\ lineIndent(lines[2]) > lineIndent(lines[1])
    /\ indent = lineIndent(lines[2])
    /\ Len(conditionsStack) = 1
    /\ conditionsStack[1].indent = lineIndent(lines[1])

(***************************************************************************)
(* The rules and the lines they come from                                  *)
(***************************************************************************)

\* a line of spaces only, up to its comment if it has one
BlankOrComment(raw) ==
    \A k \in 1 .. Len(raw) :
        (\A j \in 1 .. k : raw[j] # "#") => raw[k] = " "

Colons(str) == {k \in 1 .. Len(str) : str[k] = ":"}

\* something is written after the first colon of the line and before the
\* next one, or the line has no colon and is all outputs
HasOutputs(raw) ==
    LET str == lineText(raw)
    IN  IF Colons(str) = {} THEN str # <<>>
        ELSE \E k \in Colons(str) :
                 /\ \A j \in Colons(str) : k <= j
                 /\ k < Len(str)
                 /\ str[k + 1] # ":"

\* the lines read so far that give a rule
RuleLinesBefore(n) ==
    {k \in 1 .. n - 1 :
        k <= Len(lines) /\ ~BlankOrComment(lines[k]) /\ HasOutputs(lines[k])}

\* one rule for each line read that gives a rule, in the order of the lines
OneRulePerLine ==
    /\ Len(rules) = Len(ruleLines)
    /\ Len(ruleLines) = Cardinality(RuleLinesBefore(lineNo))
    /\ \A i \in 1 .. Len(ruleLines) : ruleLines[i] \in RuleLinesBefore(lineNo)
    /\ \A i \in 1 .. Len(ruleLines) - 1 : ruleLines[i] < ruleLines[i + 1]

\* a line that is blank or only a comment changes neither the stack nor the
\* rules
BlankLineStep ==
    (/\ pc = "for_line"
     /\ lineNo <= Len(lines)
     /\ BlankOrComment(lines[lineNo]))
        => /\ rules' = rules
           /\ conditionsStack' = conditionsStack
           /\ lineNo' = lineNo + 1
           /\ pc' = "for_line"

\* a line with a condition and no outputs puts its condition on the stack
\* and adds no rule
HeaderStep ==
    /\ (pc = "condition" /\ Truthy(conditionString) /\ pc' = "outputs")
           => /\ conditionsStack'
                  = <<[condition |-> condition', indent |-> indent]>>
                        \o conditionsStack
              /\ rules' = rules
    /\ (pc = "outputs" /\ ~HasOutputs(lines[lineNo]))
           => rules' = rules /\ pc' = "for_line" /\ lineNo' = lineNo + 1

\* C23: the rules are, in the order of the lines, one for each line that is
\* not blank, not only a comment, and has a non-empty outputs part; a line
\* with a condition and an empty outputs part puts its condition on the
\* stack and gives no rule; a blank or comment-only line changes neither the
\* stack nor the rules.
C23_OneRulePerLine ==
    /\ []OneRulePerLine
    /\ [][BlankLineStep /\ HeaderStep]_vars

\* a text of a header, a comment and a line of outputs is parsed: one rule,
\* of the third line
C23_Witness ==
    /\ pc = "constructed"
    /\ Len(lines) = 3
    /\ HasCondition(1) /\ ~HasOutputs(lines[1])
    /\ BlankOrComment(lines[2])
    /\ HasOutputs(lines[3]) /\ ~HasCondition(3)
    /\ ruleLines = <<3>>
    /\ Len(conditionsStack) = 1

(***************************************************************************)
(* Rules of one cell, in the order of the list                             *)
(***************************************************************************)

\* the writes of a rule into the cell being processed, at the time being
\* processed
SameCellWrites ==
    {i \in 1 .. Len(writes) :
        /\ writes[i].time = writes[i].t
        /\ writes[i].cell = writes[i].c
        /\ writes[i].effect \in {"added", "present"}}

\* the condition of each rule is evaluated once at most for a time and a
\* cell, and once exactly when makeDiagram has returned
EvaluatedOnce ==
    /\ \A i, j \in 1 .. Len(evals) :
           (/\ evals[i].t = evals[j].t
            /\ evals[i].c = evals[j].c
            /\ evals[i].rule = evals[j].rule) => i = j
    /\ pc = "done" =>
           \A time \in 0 .. nbSteps - 1 : \A cell \in 0 .. nbCells - 1 :
               \A rule \in 0 .. Len(rules) - 1 :
                   \E i \in 1 .. Len(evals) :
                       /\ evals[i].t = time
                       /\ evals[i].c = cell
                       /\ evals[i].rule = rule

\* C24: while a cell is processed at a time, a signal that a rule writes to
\* that cell at that time is seen by the condition of every rule later in the
\* list, for that cell and time, and a signal that the write added was seen
\* by the condition of no rule up to that one; each condition is evaluated
\* once for a cell and a time.
C24_SameCellFeedback ==
    /\ EvaluatedOnce
    /\ \A i \in SameCellWrites : \A j \in 1 .. Len(evals) :
           LET w == writes[i]
               e == evals[j]
           IN  (e.t = w.t /\ e.c = w.c) =>
                   /\ e.rule > w.rule => w.signal \in e.signals[0]
                   /\ (e.rule <= w.rule /\ w.effect = "added")
                          => w.signal \notin e.signals[0]

\* a rule has added a signal to the cell being processed, and this signal
\* has made the condition of the next rule false
C24_Witness ==
    \E i \in SameCellWrites : \E j \in 1 .. Len(evals) :
        /\ writes[i].effect = "added"
        /\ evals[j].t = writes[i].t
        /\ evals[j].c = writes[i].c
        /\ evals[j].rule > writes[i].rule
        /\ rules[evals[j].rule + 1].condition
               = Negation(Literal(writes[i].signal, 0, 0))
        /\ evals[j].value = "false"

(***************************************************************************)
(* The cells only grow                                                     *)
(***************************************************************************)

\* every Configuration is still there after the step, and each of its cells
\* has at least the signals it had
CellsGrow ==
    \A ref \in DOMAIN heap :
        /\ ref \in DOMAIN heap'
        /\ DOMAIN heap'[ref] = DOMAIN heap[ref]
        /\ \A cell \in DOMAIN heap[ref] : heap[ref][cell] \subseteq heap'[ref][cell]

\* the signals of the initial Configuration are in element 0 of the
\* returned diagram, each in its cell
InitialSignalsKept ==
    pc = "done" =>
        \A cell \in DOMAIN initialCells :
            initialCells[cell] \subseteq heap[diagram[0]][cell]

\* C25: no step of makeDiagram removes a signal from a cell of a
\* Configuration, so that every signal of the initial Configuration is in the
\* same cell of element 0 of the returned diagram.
C25_MonotonicGrowth ==
    /\ [][CellsGrow]_vars
    /\ []InitialSignalsKept

\* makeDiagram has returned after a rule added a signal to a cell of the
\* initial Configuration that held a signal
C25_Witness ==
    /\ pc = "done"
    /\ \E i \in 1 .. Len(writes) :
           /\ writes[i].effect = "added"
           /\ writes[i].time = 0
           /\ initialCells[writes[i].cell] # {}
           /\ initialCells[writes[i].cell] \cup {writes[i].signal}
                  \subseteq heap[diagram[0]][writes[i].cell]

(***************************************************************************)
(* Where the signals of a diagram come from                                *)
(***************************************************************************)

\* Clause.ts lines 13-15, 42-44, 75-81, 112-118, 150-152: getSignals
RECURSIVE clauseSignals(_)
clauseSignals(clause) ==
    IF clause.kind = "Literal" THEN {clause.signal}
    ELSE IF clause.kind = "Negation" THEN clauseSignals(clause.subclause)
    ELSE IF clause.kind \in {"Conjunction", "Disjunction"}
    THEN UNION {clauseSignals(clause.subclauses[k]) :
                    k \in DOMAIN clause.subclauses}
    ELSE {}

\* lines 76-82
getOutputSignals(rule) ==
    {rule.outputs[k].signal : k \in DOMAIN rule.outputs}

\* lines 84-86
getConditionSignals(rule) == clauseSignals(rule.condition)

\* lines 283-290
getSignals(ruleList) ==
    UNION {getConditionSignals(ruleList[k]) \cup getOutputSignals(ruleList[k]) :
               k \in DOMAIN ruleList}

\* an output of a rule whose condition was true at a time and a cell wrote
\* the signal into the cell at the time
WrittenBy(signal, time, cell) ==
    \E i \in Fired :
        \E k \in DOMAIN rules[evals[i].rule + 1].outputs :
            LET output == rules[evals[i].rule + 1].outputs[k]
            IN  /\ output.signal = signal
                /\ evals[i].t + output.futureStep = time
                /\ evals[i].c + output.neighbor = cell

\* C26: in every state of makeDiagram, a signal in a cell of the
\* configuration of a time is a signal the initial Configuration had in that
\* cell, for time 0, or the signal of an output of a rule whose condition was
\* true at a time and a cell from which the output points to this time and
\* cell; so a signal of the diagram that the initial Configuration did not
\* have in that cell is one of getSignals().
C26_Provenance ==
    \A time \in DOMAIN diagram : \A cell \in DOMAIN heap[diagram[time]] :
        \A signal \in heap[diagram[time]][cell] :
            /\ \/ time = 0 /\ signal \in initialCells[cell]
               \/ WrittenBy(signal, time, cell)
            /\ ~(time = 0 /\ signal \in initialCells[cell])
                   => signal \in getSignals(rules)

\* makeDiagram has returned a diagram where a later configuration has, in
\* another cell than the one of the rule, a signal written by an output
C26_Witness ==
    /\ pc = "done"
    /\ \E i \in 1 .. Len(writes) :
           /\ writes[i].effect = "added"
           /\ writes[i].time > 0
           /\ writes[i].cell # writes[i].c
           /\ writes[i].signal \in heap[diagram[writes[i].time]][writes[i].cell]
           /\ WrittenBy(writes[i].signal, writes[i].time, writes[i].cell)

(***************************************************************************)
(* A shorter and a longer diagram of the same automaton                    *)
(***************************************************************************)

\* Diagram.svelte lines 16-19, run again after settings.nbSteps was raised:
\* a new Configuration equal to the first one, and a longer diagram
CallLonger ==
    /\ pc \in {"done", "error"}
    /\ Len(results) + 1 < MaxCalls
    /\ nbSteps < MaxSteps
    /\ \E steps \in nbSteps + 1 .. MaxSteps : nbSteps' = steps
    /\ results' = Append(results, Outcome)
    /\ heap' = Append(heap, seedConfiguration(initialCells))
    /\ initialConfiguration' = Len(heap) + 1
    /\ nbCells' = 0
    /\ diagram' = <<>>
    /\ t' = 0
    /\ c' = 0
    /\ r' = 0
    /\ neighborhood' = <<>>
    /\ pc' = "makeDiagram"
    /\ error' = "none"
    /\ evals' = <<>>
    /\ writes' = <<>>
    /\ UNCHANGED <<automatonVars, parserVars, initialCells>>

NextPrefix ==
    \/ makeDiagram
    \/ ForT
    \/ Return
    \/ ForC
    \/ EndForC
    \/ ForRule
    \/ EndForRule
    \/ CallLonger

SpecPrefix == Init /\ [][NextPrefix]_vars

\* no output of a rule points to an earlier time
OutputsNotBefore ==
    \A i \in DOMAIN rules : \A k \in DOMAIN rules[i].outputs :
        rules[i].outputs[k].futureStep >= 0

\* the configurations of the shorter diagram are, cell by cell, the first
\* configurations of the longer one
PrefixOfLonger ==
    \A i \in DOMAIN results[1].rows : results[1].rows[i] = heap[diagram[i]]

\* C27: when no output points to an earlier time, the n + 1 configurations
\* makeDiagram returns for nbSteps = n are equal, cell by cell, to the first
\* n + 1 configurations it returns for a larger nbSteps from an equal initial
\* Configuration.
C27_PrefixStable ==
    (/\ pc = "done"
     /\ Len(results) >= 1
     /\ results[1].pc = "done"
     /\ OutputsNotBefore) => PrefixOfLonger

\* the same, when every output points to a later time
LaterOutputsPrefixStable ==
    (/\ pc = "done"
     /\ Len(results) >= 1
     /\ results[1].pc = "done"
     /\ \A i \in DOMAIN rules : \A k \in DOMAIN rules[i].outputs :
            rules[i].outputs[k].futureStep >= 1) => PrefixOfLonger

====
